---- MODULE Spec2Model ----
(***************************************************************************)
(* A model of fbcomments.py: the paginated Graph API client (graph_api),   *)
(* the comment-tree builders (_comment_tree, the tree loops of             *)
(* _download_disqus and download_facebook_post), the depth-first traversal *)
(* (_iterate_comment_tree), the download run (action_download,             *)
(* download_facebook_page, download_facebook_post) and the aggregation     *)
(* functions (_all_users, _user_stats, _duplicate_names), the run          *)
(* directories of concurrent runs (action_download, _latest_data) and the  *)
(* page loop of download_zeit.                                             *)
(*                                                                         *)
(* Six specifications share the variables; each leaves the variables of    *)
(* the other five at their idle values:                                    *)
(*   SpecTree   the tree builders and the traversal, as pure functions     *)
(*   SpecFetch  one call of graph_api against a server                     *)
(*   Spec       one run of action_download                                 *)
(*   SpecStats  the aggregation loops over _all_users(feed)                *)
(*   SpecStore  two processes running action_download on one               *)
(*              download_location                                          *)
(*   SpecZeit   download_zeit over the zeit.de URLs of a run               *)
(***************************************************************************)
EXTENDS Integers, Sequences, FiniteSets, TLC

VARIABLES
    \* ---- SpecTree
    comments,   \* the flat comment list handed to a tree builder
    tree,       \* the builder's outcome (see NoTree)
    flat,       \* the (depth, comment) pairs _iterate_comment_tree yields
    written,    \* the post record an adapter wrote after assembling the tree
    tpc,        \* "start" | "built" | "flat"
    \* ---- SpecFetch: one call of graph_api
    filter_func,\* "None" or "grep" (download_facebook_page's filter_func)
    pages,      \* the responses the server has given to this call, in order
    requests,   \* the URLs this call has requested, in order
    full_url,   \* the URL of the next request
    data,       \* the items collected so far
    fret,       \* what the call returned or raised (see NoReturn)
    fpc,        \* "loop" | "returned" | "raised"
    \* ---- Spec: one run of action_download
    config,     \* the options of config.json that the run reads
    urls,       \* the URLs of url_groups, in order
    ui,         \* the index of the URL the loop of action_download is at
    rpc,        \* where the run is (see RunInit and the actions)
    store,      \* the files of the run's directory d: name -> content
    raw,        \* raw_comments of the post being downloaded
    served,     \* what the server returned: the feed, the comment streams
    failed,     \* the fetches that failed: <<post id, which fetch>>
    printed,    \* the post ids printed as failed (lines 519-521)
    raised,     \* the exception that ended the run, "none" if none did
    exit,       \* the process outcome: -1 running, 0, or 1
    \* ---- SpecStats: the aggregation functions
    feed,       \* the feed _read_all returns: posts with 'from', likes, comments
    user_stats, \* what _user_stats(feed) returned
    dupl_names, \* what _duplicate_names(feed) returned
    spc,        \* which of the two functions have been applied
    \* ---- SpecStore: two processes on one download_location
    clock,      \* the second of the minute time.strftime reads
    root,       \* whether config['download_location'] exists
    dirs,       \* the run directories under download_location, by name
    files,      \* the files in them: [key, name, by], by = the last writer
    runs,       \* per process: where it is, its d, the files it has written
    \* ---- SpecZeit: download_zeit for each URL in turn
    zi,         \* the index of the URL download_zeit is called for
    pagecount,  \* the page count read from the article's pager
    zpage,      \* the loop variable page of the page loop
    zfetched,   \* the page numbers requested for this URL, in order
    doc,        \* the articles seen for this URL, in document order
    zcomments,  \* the local list comments of download_zeit
    last_toplevel, \* the article last_toplevel points to, 0 for None
    zerr,       \* the exception that left download_zeit, "none" if none
    zpc,        \* "start" | "loop" | "raised" | "done"
    zwritten    \* the posts written with _write_post, in order

treeVars == <<comments, tree, flat, written, tpc>>

fetchVars == <<filter_func, pages, requests, full_url, data, fret, fpc>>

runVars ==
    <<config, urls, ui, rpc, store, raw, served, failed, printed, raised, exit>>

statsVars == <<feed, user_stats, dupl_names, spc>>

storeVars == <<clock, root, dirs, files, runs>>

zeitVars ==
    <<zi, pagecount, zpage, zfetched, doc, zcomments, last_toplevel, zerr, zpc,
      zwritten>>

vars == <<treeVars, fetchVars, runVars, statsVars, storeVars, zeitVars>>

\* the processes of SpecStore
RunIds == {1, 2}

\* no run directory: d before line 246 is reached
NoKey == <<>>

StoreIdle ==
    /\ clock = 0 /\ root = FALSE /\ dirs = {} /\ files = {}
    /\ runs = [r \in RunIds |-> [pc |-> "idle", d |-> NoKey, n |-> 0,
                                 err |-> "none"]]

ZeitIdle ==
    /\ zi = 0 /\ pagecount = 0 /\ zpage = 0 /\ zfetched = <<>> /\ doc = <<>>
    /\ zcomments = <<>> /\ last_toplevel = 0 /\ zerr = "none"
    /\ zpc = "idle" /\ zwritten = <<>>

----------------------------------------------------------------------------
(***************************************************************************)
(* Comments.  A raw comment is [id, parent]; parent = 0 stands for "no     *)
(* parent" (the key 'parent' is absent, or 'parent_id' is None).  A Python *)
(* comment object is identified by its index in the flat list.  A comment  *)
(* object has two list-valued fields the code uses for children:           *)
(* '__children' (written by _comment_tree) and 'comments' (written by the  *)
(* adapters, read by _iterate_comment_tree).                               *)
(***************************************************************************)
MaxComments == 3

CommentIds == 1..MaxComments

PosOf(seq, x) == CHOOSE k \in DOMAIN seq : seq[k] = x

Injective(s) == \A i, j \in DOMAIN s : s[i] = s[j] => i = j

\* The flat lists: up to MaxComments comments with distinct ids, each with no
\* parent (0) or a parent reference that may or may not name an id of the list,
\* may name a later comment, and may name the comment itself.
FlatLists ==
    UNION { { [i \in 1..n |-> [id |-> ids[i], parent |-> ps[i]]] :
                ids \in {s \in [1..n -> CommentIds] : Injective(s)},
                ps \in [1..n -> 0..MaxComments] } :
            n \in 0..MaxComments }

NoField(cs) == [i \in DOMAIN cs |-> <<>>]

\* by_id = {c['id']: c for c in comments}: the last comment with each id
ById(cs) ==
    [k \in {cs[i].id : i \in DOMAIN cs} |->
        CHOOSE i \in DOMAIN cs :
            cs[i].id = k /\ \A j \in DOMAIN cs : cs[j].id = k => j <= i]

\* A variant that puts the new child first
Prepend2(f, k, v) == [f EXCEPT ![k] = <<v>> \o @]

Append2(f, k, v) == [f EXCEPT ![k] = Append(@, v)]

NoTree == [by |-> "none", err |-> "none", root |-> <<>>,
           children |-> <<>>, kids |-> <<>>]

\* _comment_tree's loop from comment i on; acc is the tree so far.
RECURSIVE CommentTreeLoop(_, _, _)
CommentTreeLoop(cs, i, acc) ==
    IF i > Len(cs) THEN acc
    ELSE IF cs[i].parent # 0
         THEN IF cs[i].parent \in DOMAIN ById(cs)
              THEN CommentTreeLoop(cs, i + 1,
                       [acc EXCEPT !.children =
                            Append2(@, ById(cs)[cs[i].parent], i)])
              ELSE [NoTree EXCEPT !.by = acc.by, !.err = "KeyError"]
         ELSE CommentTreeLoop(cs, i + 1, [acc EXCEPT !.root = Append(@, i)])

\* A variant of _comment_tree that makes a comment with an unknown parent a root
CommentTreeLenient(cs) ==
    CommentTreeLoop(
        [i \in DOMAIN cs |->
            IF cs[i].parent \in DOMAIN ById(cs) THEN cs[i]
            ELSE [cs[i] EXCEPT !.parent = 0]],
        1,
        [by |-> "_comment_tree", err |-> "none", root |-> <<>>,
         children |-> NoField(cs), kids |-> NoField(cs)])

\* _comment_tree(comments): the children go to the field '__children'
\* (children); the field 'comments' (kids) of a raw comment is absent, which
\* c.get('comments', []) reads as empty.
CommentTree(cs) ==
    CommentTreeLoop(cs, 1,
        [by |-> "_comment_tree", err |-> "none", root |-> <<>>,
         children |-> NoField(cs), kids |-> NoField(cs)])

\* The tree loop of _download_disqus: the lookup holds all comments before the
\* loop starts; a missing parent fails the assert.
RECURSIVE DisqusTreeLoop(_, _, _)
DisqusTreeLoop(cs, i, acc) ==
    IF i > Len(cs) THEN acc
    ELSE IF cs[i].parent # 0
         THEN IF cs[i].parent \in DOMAIN ById(cs)
              THEN DisqusTreeLoop(cs, i + 1,
                       [acc EXCEPT !.kids =
                            Append2(@, ById(cs)[cs[i].parent], i)])
              ELSE [NoTree EXCEPT !.by = acc.by, !.err = "AssertionError"]
         ELSE DisqusTreeLoop(cs, i + 1, [acc EXCEPT !.root = Append(@, i)])

DisqusTree(cs) ==
    DisqusTreeLoop(cs, 1,
        [by |-> "_download_disqus", err |-> "none", root |-> <<>>,
         children |-> NoField(cs), kids |-> NoField(cs)])

\* The tree loop of download_facebook_post: comments_by_id is filled as the
\* loop goes, so at comment i it holds the comments 1..i only.
RECURSIVE PostTreeLoop(_, _, _)
PostTreeLoop(cs, i, acc) ==
    IF i > Len(cs) THEN acc
    ELSE IF cs[i].parent # 0
         THEN IF cs[i].parent \in DOMAIN ById(SubSeq(cs, 1, i))
              THEN PostTreeLoop(cs, i + 1,
                       [acc EXCEPT !.kids =
                            Append2(@, ById(SubSeq(cs, 1, i))[cs[i].parent], i)])
              ELSE [NoTree EXCEPT !.by = acc.by, !.err = "KeyError"]
         ELSE PostTreeLoop(cs, i + 1, [acc EXCEPT !.root = Append(@, i)])

PostTree(cs) ==
    PostTreeLoop(cs, 1,
        [by |-> "download_facebook_post", err |-> "none", root |-> <<>>,
         children |-> NoField(cs), kids |-> NoField(cs)])

\* _iterate_comment_tree: _yield_recursive(depth, c) over the field 'comments'
RECURSIVE YieldRecursive(_, _, _), YieldEach(_, _, _)
YieldRecursive(kids, depth, c) ==
    <<<<depth, c>>>> \o YieldEach(kids, depth + 1, kids[c])

YieldEach(kids, depth, s) ==
    IF s = <<>> THEN <<>>
    ELSE YieldRecursive(kids, depth, Head(s)) \o YieldEach(kids, depth, Tail(s))

IterateCommentTree(t) == YieldEach(t.kids, 0, t.root)

----------------------------------------------------------------------------
(***************************************************************************)
(* SpecTree: a flat list is drawn, one builder is applied to it, and the   *)
(* tree it returns (if any) is traversed.                                  *)
(***************************************************************************)
TreeIdle ==
    comments = <<>> /\ tree = NoTree /\ flat = <<>> /\ written = NoTree
    /\ tpc = "idle"

TreeInit ==
    /\ comments \in FlatLists
    /\ tree = NoTree
    /\ flat = <<>>
    /\ written = NoTree
    /\ tpc = "start"

BuildCommentTree ==
    /\ tpc = "start"
    /\ tree' = CommentTree(comments)
    /\ tpc' = "built"
    /\ UNCHANGED <<comments, flat, written, fetchVars, runVars, statsVars,
                 storeVars, zeitVars>>

BuildDisqusTree ==
    /\ tpc = "start"
    /\ tree' = DisqusTree(comments)
    /\ tpc' = "built"
    /\ UNCHANGED <<comments, flat, written, fetchVars, runVars, statsVars,
                 storeVars, zeitVars>>

BuildPostTree ==
    /\ tpc = "start"
    /\ tree' = PostTree(comments)
    /\ tpc' = "built"
    /\ UNCHANGED <<comments, flat, written, fetchVars, runVars, statsVars,
                 storeVars, zeitVars>>

Iterate ==
    /\ tpc = "built"
    /\ tree.err = "none"
    /\ flat' = IterateCommentTree(tree)
    /\ tpc' = "flat"
    /\ UNCHANGED <<comments, tree, written, fetchVars, runVars, statsVars,
                 storeVars, zeitVars>>

\* The adapters put the assembled tree into the post record and write it
\* (_write_post); _comment_tree only returns its tree.
WritePost ==
    /\ tpc = "built"
    /\ tree.err = "none"
    /\ tree.by \in {"_download_disqus", "download_facebook_post"}
    /\ written = NoTree
    /\ written' = tree
    /\ UNCHANGED <<comments, tree, flat, tpc, fetchVars, runVars, statsVars,
                 storeVars, zeitVars>>

TreeNext ==
    BuildCommentTree \/ BuildDisqusTree \/ BuildPostTree \/ Iterate \/ WritePost


----------------------------------------------------------------------------
(***************************************************************************)
(* graph_api.  A response is an HTTP failure (urlopen raises HTTPError), a *)
(* JSON object without the key 'data', or a list envelope: 'data' with the *)
(* items and, perhaps, paging.next with the URL of the next page.          *)
(*                                                                         *)
(* An item of a list envelope is a JSON value.  Four kinds matter to       *)
(* graph_api: "X" an object whose 'message' contains feedmessage_grep,     *)
(* "n" an object whose 'message' does not, "m" an object without           *)
(* 'message', and "e" the empty object {} (false in a Python condition).   *)
(* An item is [at, kind]; at = <<page, index>> tells the items apart.      *)
(***************************************************************************)
MaxPages == 3

PageShapes ==
    { <<>>, <<"X">>, <<"n">>, <<"e">>, <<"X", "n">>, <<"n", "X">>,
      <<"m", "X">>, <<"X", "e">> }

\* the URL of the first request, and the URLs a page may name as its next
InitialUrl == "url0"

NextUrls == {"urlA", "urlB"}

ItemsOf(shape, page) ==
    [i \in DOMAIN shape |-> [at |-> <<page, i>>, kind |-> shape[i]]]

Truthy(item) == item.kind # "e"

\* filter_func of download_facebook_page
FeedmessageGrep(item) == item.kind = "X"

\* filter(filter_func, d['data']); with filter_func None, Python's filter
\* keeps the items that are true
Filter(f, items) ==
    SelectSeq(items, LAMBDA x : IF f = "None" THEN Truthy(x) ELSE FeedmessageGrep(x))

NoReturn == [kind |-> "none", value |-> <<>>]

FetchIdle ==
    /\ filter_func = "None" /\ pages = <<>> /\ requests = <<>>
    /\ full_url = "none" /\ data = <<>> /\ fret = NoReturn /\ fpc = "idle"

FetchInit ==
    /\ filter_func \in {"None", "grep"}
    /\ pages = <<>>
    /\ requests = <<>>
    /\ full_url = InitialUrl
    /\ data = <<>>
    /\ fret = NoReturn
    /\ fpc = "loop"

\* A variant that records the failure and requests the same URL again
RequestFailsRetry ==
    /\ fpc = "loop"
    /\ Len(pages) + 1 < MaxPages
    /\ requests' = Append(requests, full_url)
    /\ pages' = Append(pages, [kind |-> "HTTPError"])
    /\ UNCHANGED <<filter_func, full_url, data, fret, fpc>>
    /\ UNCHANGED <<treeVars, runVars, statsVars,
                 storeVars, zeitVars>>

\* urlopen(full_url) raises HTTPError: it leaves graph_api uncaught
RequestFails ==
    /\ fpc = "loop"
    /\ requests' = Append(requests, full_url)
    /\ pages' = Append(pages, [kind |-> "HTTPError"])
    /\ fret' = [kind |-> "HTTPError", value |-> <<>>]
    /\ fpc' = "raised"
    /\ UNCHANGED <<filter_func, full_url, data, treeVars, runVars, statsVars,
                 storeVars, zeitVars>>

\* the response has no 'data': assert not data; return d
RequestObject ==
    /\ fpc = "loop"
    /\ requests' = Append(requests, full_url)
    /\ pages' = Append(pages, [kind |-> "object"])
    /\ IF data = <<>>
       THEN fret' = [kind |-> "object", value |-> <<>>] /\ fpc' = "returned"
       ELSE fret' = [kind |-> "AssertionError", value |-> <<>>] /\ fpc' = "raised"
    /\ UNCHANGED <<filter_func, full_url, data, treeVars, runVars, statsVars,
                 storeVars, zeitVars>>

\* a list envelope with a next page: extend data and go on with paging.next
RequestPageWithNext ==
    /\ fpc = "loop"
    /\ Len(pages) + 1 < MaxPages
    /\ \E shape \in PageShapes, next \in NextUrls :
        LET items == ItemsOf(shape, Len(pages) + 1) IN
        /\ requests' = Append(requests, full_url)
        /\ pages' = Append(pages, [kind |-> "list", items |-> items, next |-> next])
        /\ data' = data \o Filter(filter_func, items)
        /\ full_url' = next
    /\ UNCHANGED <<filter_func, fret, fpc, treeVars, runVars, statsVars,
                 storeVars, zeitVars>>

\* a list envelope without a next page: extend data, break and return data
RequestLastPage ==
    /\ fpc = "loop"
    /\ \E shape \in PageShapes :
        LET items == ItemsOf(shape, Len(pages) + 1) IN
        /\ requests' = Append(requests, full_url)
        /\ pages' = Append(pages, [kind |-> "list", items |-> items, next |-> "none"])
        /\ data' = data \o Filter(filter_func, items)
        /\ fret' = [kind |-> "list", value |-> data \o Filter(filter_func, items)]
    /\ fpc' = "returned"
    /\ UNCHANGED <<filter_func, full_url, treeVars, runVars, statsVars,
                 storeVars, zeitVars>>

FetchNext ==
    RequestFails \/ RequestObject \/ RequestPageWithNext \/ RequestLastPage

----------------------------------------------------------------------------
(***************************************************************************)
(* action_download.  A URL of url_groups is a Facebook post URL            *)
(* (download_facebook_post with url), a welt.de article (download_welt,    *)
(* which uses _download_disqus) or a page name (download_facebook_page).   *)
(* Each action below is one blocking network call (a whole graph_api call, *)
(* abstracted to its outcome: SpecFetch models its inside) together with   *)
(* the local code that follows it up to the next network call.             *)
(*                                                                         *)
(* An exception that nothing catches ends the process with a traceback     *)
(* and exit status 1 (rpc = "crashed").                                    *)
(***************************************************************************)
MaxUrls == 2

PostIds == 1..MaxUrls

Urls == {<<"post", k>> : k \in PostIds} \cup {<<"welt", 0>>, <<"page", 0>>}

UrlLists ==
    UNION { {s \in [1..n -> Urls] : Injective(s)} : n \in 0..MaxUrls }

Cmt(id, parent) == [id |-> id, parent |-> parent]

\* the comment streams a server returns for a post or a thread
StreamPool ==
    { <<>>,
      <<Cmt(2, 0), Cmt(1, 0), Cmt(3, 2)>>,
      <<Cmt(1, 0), Cmt(3, 1), Cmt(2, 1)>>,
      <<Cmt(2, 1), Cmt(1, 0)>>,
      <<Cmt(1, 0), Cmt(2, 3)>> }

\* the reaction lists a server returns for a post
LikesPool == { <<>>, <<"B", "C">> }

\* config.get('abort_on_error', True)
AbortOnError(cfg) ==
    IF cfg.abort_on_error = "absent" THEN TRUE ELSE cfg.abort_on_error = "true"

\* filter_func of download_facebook_page: None unless feedmessage_grep is set
FilterFunc(cfg) == IF cfg.feedmessage_grep THEN "grep" ELSE "None"

\* _write_data(d, name, data): the file is created or overwritten
WriteData(st, name, content) ==
    [x \in (DOMAIN st) \cup {name} |-> IF x = name THEN content ELSE st[x]]

Record(f, k, v) == [x \in (DOMAIN f) \cup {k} |-> IF x = k THEN v ELSE f[x]]

NoFiles == [x \in {} |-> <<>>]

StatsIdle == feed = <<>> /\ user_stats = <<>> /\ dupl_names = <<>> /\ spc = "idle"

RunIdle ==
    /\ config = [abort_on_error |-> "absent", feedmessage_grep |-> FALSE]
    /\ urls = <<>> /\ ui = 0 /\ rpc = "idle" /\ store = NoFiles /\ raw = <<>>
    /\ served = NoFiles /\ failed = {} /\ printed = <<>> /\ raised = "none"
    /\ exit = -1

RunInit ==
    /\ config \in [abort_on_error : {"absent", "true", "false"},
                   feedmessage_grep : BOOLEAN]
    /\ urls \in UrlLists
    /\ ui = 1
    /\ rpc = "start"
    /\ store = NoFiles
    /\ raw = <<>>
    /\ served = NoFiles
    /\ failed = {}
    /\ printed = <<>>
    /\ raised = "none"
    /\ exit = -1

AtUrl(kind) == rpc = "next_url" /\ ui <= Len(urls) /\ urls[ui][1] = kind

Crash(exception) ==
    /\ rpc' = "crashed"
    /\ raised' = exception
    /\ exit' = 1
    /\ raw' = <<>>
    /\ UNCHANGED <<ui, printed>>

NextUrl ==
    /\ rpc' = "next_url"
    /\ ui' = ui + 1
    /\ raw' = <<>>
    /\ UNCHANGED <<exit, printed, raised>>

\* lines 244-250: the run's directory is made
StartRun ==
    /\ rpc = "start"
    /\ rpc' = "next_url"
    /\ UNCHANGED <<config, urls, ui, store, raw, served, failed, printed, raised, exit>>
    /\ UNCHANGED <<treeVars, fetchVars, statsVars,
                 storeVars, zeitVars>>

\* lines 527-533: graph_api for the post raises HTTPError
PostBodyFails ==
    /\ AtUrl("post")
    /\ failed' = failed \cup {<<urls[ui][2], "post">>}
    /\ IF AbortOnError(config)
       THEN Crash("HTTPError")
       ELSE NextUrl     \* action_download drops the (post_id, he) returned
    /\ UNCHANGED <<config, urls, store, served>>
    /\ UNCHANGED <<treeVars, fetchVars, statsVars,
                 storeVars, zeitVars>>

\* lines 528, 534: the post is fetched and written
PostBodyOk ==
    /\ AtUrl("post")
    /\ store' = WriteData(store, <<"post", urls[ui][2]>>, "raw_post")
    /\ rpc' = "post_comments"
    /\ UNCHANGED <<config, urls, ui, raw, served, failed, printed, raised, exit>>
    /\ UNCHANGED <<treeVars, fetchVars, statsVars,
                 storeVars, zeitVars>>

\* lines 536-541: graph_api for the comments raises HTTPError; no try here
PostCommentsFails ==
    /\ rpc = "post_comments"
    /\ failed' = failed \cup {<<urls[ui][2], "comments">>}
    /\ Crash("HTTPError")
    /\ UNCHANGED <<config, urls, store, served>>
    /\ UNCHANGED <<treeVars, fetchVars, statsVars,
                 storeVars, zeitVars>>

\* lines 536-542: the comment stream is fetched and written
PostCommentsOk ==
    /\ rpc = "post_comments"
    /\ \E stream \in StreamPool :
        /\ served' = Record(served, urls[ui], stream)
        /\ raw' = stream
        /\ store' = WriteData(store, <<"comments", urls[ui][2]>>, stream)
    /\ rpc' = "post_likes"
    /\ UNCHANGED <<config, urls, ui, failed, printed, raised, exit>>
    /\ UNCHANGED <<treeVars, fetchVars, statsVars,
                 storeVars, zeitVars>>

\* lines 544-545: graph_api for the likes raises HTTPError; no try here
PostLikesFails ==
    /\ rpc = "post_likes"
    /\ failed' = failed \cup {<<urls[ui][2], "likes">>}
    /\ Crash("HTTPError")
    /\ UNCHANGED <<config, urls, store, served>>
    /\ UNCHANGED <<treeVars, fetchVars, statsVars,
                 storeVars, zeitVars>>

\* lines 544-584: the likes are fetched and written; with a url the tree is
\* assembled and the post record written, unless a parent lookup raises
PostLikesOk ==
    /\ rpc = "post_likes"
    /\ \E likes \in LikesPool :
        LET st == WriteData(store, <<"likes", urls[ui][2]>>, likes)
            t  == PostTree(raw)
        IN  IF t.err # "none"
            THEN store' = st /\ Crash(t.err)
            ELSE /\ store' = WriteData(st, <<"record", urls[ui]>>,
                                       [root |-> t.root, kids |-> t.kids])
                 /\ NextUrl
    /\ UNCHANGED <<config, urls, served, failed>>
    /\ UNCHANGED <<treeVars, fetchVars, statsVars,
                 storeVars, zeitVars>>

\* download_welt: one of its downloads raises HTTPError
WeltFails ==
    /\ AtUrl("welt")
    /\ Crash("HTTPError")
    /\ UNCHANGED <<config, urls, store, served, failed>>
    /\ UNCHANGED <<treeVars, fetchVars, statsVars,
                 storeVars, zeitVars>>

\* download_welt: _download_disqus collects the thread's comments page by
\* page, assembles the tree (or fails its assert), and the post is written
WeltOk ==
    /\ AtUrl("welt")
    /\ \E stream \in StreamPool :
        LET t == DisqusTree(stream) IN
        /\ served' = Record(served, urls[ui], stream)
        /\ IF t.err # "none"
           THEN UNCHANGED store /\ Crash(t.err)
           ELSE /\ store' = WriteData(store, <<"record", urls[ui]>>,
                                      [root |-> t.root, kids |-> t.kids])
                /\ NextUrl
    /\ UNCHANGED <<config, urls, failed>>
    /\ UNCHANGED <<treeVars, fetchVars, statsVars,
                 storeVars, zeitVars>>

\* line 506: graph_api for the feed raises HTTPError
PageFeedFails ==
    /\ AtUrl("page")
    /\ Crash("HTTPError")
    /\ UNCHANGED <<config, urls, store, served, failed>>
    /\ UNCHANGED <<treeVars, fetchVars, statsVars,
                 storeVars, zeitVars>>

\* lines 506-523: the feed is fetched, filtered and written; then the loop
\* over the feed calls download_facebook_post(config, post_id) for the first
\* post (line 514).  The function takes (config, d, post_id, url=None), so
\* this call binds post_id to d and raises TypeError for the missing
\* argument post_id, before any fetch.  With an empty feed the loop body does
\* not run, errors stays [] and the function returns.
PageFeedOk ==
    /\ AtUrl("page")
    /\ \E shape \in PageShapes :
        LET src  == ItemsOf(shape, 1)
            kept == Filter(FilterFunc(config), src)
        IN
        /\ served' = Record(served, urls[ui], src)
        /\ store' = WriteData(store, <<"feed", 0>>, kept)
        /\ IF kept # <<>>
           THEN Crash("TypeError")
           ELSE NextUrl
    /\ UNCHANGED <<config, urls, failed>>
    /\ UNCHANGED <<treeVars, fetchVars, statsVars,
                 storeVars, zeitVars>>

\* the loops of action_download are done: the process ends normally
Finish ==
    /\ rpc = "next_url"
    /\ ui > Len(urls)
    /\ rpc' = "done"
    /\ exit' = 0
    /\ UNCHANGED <<config, urls, ui, store, raw, served, failed, printed, raised>>
    /\ UNCHANGED <<treeVars, fetchVars, statsVars,
                 storeVars, zeitVars>>

Next ==
    \/ StartRun
    \/ PostBodyFails \/ PostBodyOk
    \/ PostCommentsFails \/ PostCommentsOk
    \/ PostLikesFails \/ PostLikesOk
    \/ WeltFails \/ WeltOk
    \/ PageFeedFails \/ PageFeedOk
    \/ Finish

Init ==
    RunInit /\ TreeIdle /\ FetchIdle /\ StatsIdle /\ StoreIdle /\ ZeitIdle

Spec == Init /\ [][Next]_vars

----------------------------------------------------------------------------
(***************************************************************************)
(* _all_users, _user_stats and _duplicate_names over the feed that         *)
(* _read_all returns.  A user is [id, name]; of a post only its author     *)
(* ('from'), the users of its likes and the authors of its comments        *)
(* matter.  Ids are strings in the code and compare as strings; the ids    *)
(* here are single digits, for which that is the numeric order.  Names     *)
(* compare as strings: NameOrder lists the names in that order.            *)
(***************************************************************************)
MaxFeed == 2

User(id, name) == [id |-> id, name |-> name]

UserPool ==
    { User(1, "A"), User(2, "B"), User(3, "C"), User(4, "A"),
      User(5, "B"), User(6, "B") }

NameOrder == <<"A", "B", "C">>

Authors == {User(1, "A"), User(2, "B"), User(4, "A")}

LikesOfPost ==
    { <<>>, <<User(2, "B"), User(3, "C")>>, <<User(4, "A"), User(1, "A")>> }

CommentsOfPost ==
    { <<>>, <<User(2, "B"), User(2, "B")>>, <<User(3, "C"), User(4, "A")>>,
      <<User(5, "B"), User(6, "B")>> }

Posts == [from : Authors, likes : LikesOfPost, comments : CommentsOfPost]

Feeds == UNION { [1..n -> Posts] : n \in 0..MaxFeed }

\* _all_users(feed): the (action, user) pairs in the order they are yielded
RECURSIVE AllUsers(_)
AllUsers(fd) ==
    IF fd = <<>> THEN <<>>
    ELSE LET post == Head(fd) IN
         <<<<"post", post.from>>>>
            \o [i \in DOMAIN post.likes |-> <<"like_post", post.likes[i]>>]
            \o [i \in DOMAIN post.comments |-> <<"comment", post.comments[i]>>]
            \o AllUsers(Tail(fd))

NoActions == [post |-> 0, like_post |-> 0, comment |-> 0]

\* the loop of _user_stats over the pairs from the i-th on; ud is user_dict:
\* the ids in insertion order, and for each the name and the Counter
RECURSIVE UserDictLoop(_, _, _)
UserDictLoop(pairs, i, ud) ==
    IF i > Len(pairs) THEN ud
    ELSE LET action == pairs[i][1]
             u == pairs[i][2]
             \* setdefault: the first name seen for an id stays
             ud1 == IF u.id \in DOMAIN ud.entry THEN ud
                    ELSE [order |-> Append(ud.order, u.id),
                          entry |-> Record(ud.entry, u.id,
                                       [name |-> u.name, actions |-> NoActions])]
         IN  UserDictLoop(pairs, i + 1,
                [ud1 EXCEPT !.entry[u.id].actions[action] = @ + 1])

UserDict(fd) == UserDictLoop(AllUsers(fd), 1, [order |-> <<>>, entry |-> NoFiles])

Rank(name) == PosOf(NameOrder, name)

SumValues(actions) == actions.post + actions.like_post + actions.comment

\* A variant of the sort key without the comment and like counts
UserKeyTotalOnly(u) == <<-SumValues(u[3]), 0, 0, Rank(u[2]), u[1]>>

\* _user_key_actioncount(u) for u = (uid, uname, actions)
UserKeyActioncount(u) ==
    <<-SumValues(u[3]), -u[3].comment, -u[3].like_post, Rank(u[2]), u[1]>>

\* the order of Python tuples of integers of one length
TupleLess(a, b) ==
    \E i \in DOMAIN a :
        a[i] < b[i] /\ \A j \in 1..(i - 1) : a[j] = b[j]

\* list.sort(key=...): a stable insertion sort by _user_key_actioncount
RECURSIVE InsertUser(_, _), SortUsers(_)
InsertUser(sorted, u) ==
    IF sorted = <<>> THEN <<u>>
    ELSE IF TupleLess(UserKeyActioncount(u), UserKeyActioncount(Head(sorted)))
         THEN <<u>> \o sorted
         ELSE <<Head(sorted)>> \o InsertUser(Tail(sorted), u)

SortUsers(users) ==
    IF users = <<>> THEN <<>>
    ELSE InsertUser(SortUsers(SubSeq(users, 1, Len(users) - 1)), users[Len(users)])

\* _user_stats(feed): the list of (uid, name, actions), sorted
UserStats(fd) ==
    LET ud == UserDict(fd)
        users == [i \in DOMAIN ud.order |->
                    <<ud.order[i], ud.entry[ud.order[i]].name,
                      ud.entry[ud.order[i]].actions>>]
    IN  SortUsers(users)

\* sorted(ids)
RECURSIVE SortedIds(_)
SortedIds(ids) ==
    IF ids = {} THEN <<>>
    ELSE LET m == CHOOSE x \in ids : \A y \in ids : x <= y
         IN  <<m>> \o SortedIds(ids \ {m})

\* id_by_name after the loop of _duplicate_names
IdByName(fd) ==
    LET pairs == AllUsers(fd) IN
    [name \in {pairs[i][2].name : i \in DOMAIN pairs} |->
        {pairs[i][2].id : i \in {j \in DOMAIN pairs : pairs[j][2].name = name}}]

\* sorted(dupls.items(), key=(lambda t: (-len(t[1]), t[0])))
RECURSIVE SortDupls(_)
SortDupls(items) ==
    IF items = {} THEN <<>>
    ELSE LET m == CHOOSE x \in items : \A y \in items :
                    x = y \/ TupleLess(<<-Len(x[2]), Rank(x[1])>>,
                                       <<-Len(y[2]), Rank(y[1])>>)
         IN  <<m>> \o SortDupls(items \ {m})

\* A variant of _duplicate_names that also reports a name with one id
DuplicateNamesAll(fd) ==
    SortDupls({<<name, SortedIds(IdByName(fd)[name])>> :
                 name \in DOMAIN IdByName(fd)})

\* _duplicate_names(feed)
DuplicateNames(fd) ==
    SortDupls({<<name, SortedIds(IdByName(fd)[name])>> :
                 name \in {n \in DOMAIN IdByName(fd) :
                              Cardinality(IdByName(fd)[n]) > 1}})

StatsInit ==
    /\ feed \in Feeds
    /\ user_stats = <<>>
    /\ dupl_names = <<>>
    /\ spc = "start"

ApplyUserStats ==
    /\ spc \in {"start", "dupl"}
    /\ user_stats' = UserStats(feed)
    /\ spc' = IF spc = "start" THEN "stats" ELSE "both"
    /\ UNCHANGED <<feed, dupl_names>>
    /\ UNCHANGED <<treeVars, fetchVars, runVars,
                 storeVars, zeitVars>>

ApplyDuplicateNames ==
    /\ spc \in {"start", "stats"}
    /\ dupl_names' = DuplicateNames(feed)
    /\ spc' = IF spc = "start" THEN "dupl" ELSE "both"
    /\ UNCHANGED <<feed, user_stats>>
    /\ UNCHANGED <<treeVars, fetchVars, runVars,
                 storeVars, zeitVars>>

StatsNext == ApplyUserStats \/ ApplyDuplicateNames

InitStats ==
    StatsInit /\ TreeIdle /\ FetchIdle /\ RunIdle /\ StoreIdle /\ ZeitIdle

SpecStats == InitStats /\ [][StatsNext]_vars

InitFetch ==
    FetchInit /\ TreeIdle /\ RunIdle /\ StatsIdle /\ StoreIdle /\ ZeitIdle

SpecFetch == InitFetch /\ [][FetchNext]_vars

InitTree ==
    TreeInit /\ FetchIdle /\ RunIdle /\ StatsIdle /\ StoreIdle /\ ZeitIdle

SpecTree == InitTree /\ [][TreeNext]_vars

----------------------------------------------------------------------------
(***************************************************************************)
(* Properties of the tree builders and the traversal.                      *)
(***************************************************************************)
Ids(cs) == {cs[i].id : i \in DOMAIN cs}

Resolvable(cs) == \A i \in DOMAIN cs : cs[i].parent = 0 \/ cs[i].parent \in Ids(cs)

\* the index of comment i's parent, 0 for a root
ParentOf(cs, i) == IF cs[i].parent = 0 THEN 0 ELSE ById(cs)[cs[i].parent]

\* the number of ancestor links from i to a root, -1 when none is reached
RECURSIVE Links(_, _, _)
Links(cs, i, fuel) ==
    IF ParentOf(cs, i) = 0 THEN 0
    ELSE IF fuel = 0 THEN -1
    ELSE LET d == Links(cs, ParentOf(cs, i), fuel - 1)
         IN  IF d = -1 THEN -1 ELSE d + 1

DepthOf(cs, i) == Links(cs, i, Len(cs))

Acyclic(cs) == \A i \in DOMAIN cs : DepthOf(cs, i) # -1

PosIn(fl, i) == CHOOSE k \in DOMAIN fl : fl[k][2] = i

\* fl is the depth-first flattening of the forest that cs describes
RoundTrip(cs, fl) ==
    /\ Len(fl) = Len(cs)
    /\ {fl[k][2] : k \in DOMAIN fl} = DOMAIN cs
    /\ \A i \in DOMAIN cs :
          /\ fl[PosIn(fl, i)][1] = DepthOf(cs, i)
          /\ ParentOf(cs, i) # 0 => PosIn(fl, ParentOf(cs, i)) < PosIn(fl, i)
    /\ \A i, j \in DOMAIN cs :
          \* siblings (and roots) in input order, and the whole subtree of the
          \* earlier one before the later one
          (i < j /\ ParentOf(cs, i) = ParentOf(cs, j)) =>
              /\ PosIn(fl, i) < PosIn(fl, j)
              /\ \A c \in DOMAIN cs :
                    ParentOf(cs, c) = i => PosIn(fl, c) < PosIn(fl, j)

\* C1: for a flat list whose parent references all resolve inside the list
\* (and form no cycle), _comment_tree followed by _iterate_comment_tree yields
\* exactly the input comments, each once, children after their parent and
\* before later sibling subtrees, siblings in input order, depth = number of
\* ancestor links.
C1_RoundTrip ==
    (tpc = "flat" /\ tree.by = "_comment_tree"
        /\ Resolvable(comments) /\ Acyclic(comments))
    => RoundTrip(comments, flat)

\* C2: in each of the three builders a parent reference that names an id
\* absent from the list ends the operation with an error: no tree is
\* returned, nothing is written to the post record, and the comment is
\* neither dropped nor made a root.
C2_UnresolvedParentFails ==
    ~Resolvable(comments) =>
        /\ tpc # "start" =>
              /\ tree.err \in {"KeyError", "AssertionError"}
              /\ tree.root = <<>> /\ tree.kids = <<>> /\ tree.children = <<>>
        /\ tpc # "flat"
        /\ written = NoTree

C2_Witness ==
    /\ tpc = "built" /\ ~Resolvable(comments)
    /\ tree.by = "download_facebook_post" /\ tree.err = "KeyError"
    /\ Len(comments) >= 2

----------------------------------------------------------------------------
(***************************************************************************)
(* Properties of graph_api.                                                *)
(***************************************************************************)
\* the include predicate: every item when no predicate is given
Included(f, item) == f = "None" \/ FeedmessageGrep(item)

\* the items of the pages pgs that satisfy the include predicate, in page
\* order and in arrival order within a page
RECURSIVE IncludedItems(_, _)
IncludedItems(f, pgs) ==
    IF pgs = <<>> THEN <<>>
    ELSE SelectSeq(Head(pgs).items, LAMBDA x : Included(f, x))
            \o IncludedItems(f, Tail(pgs))

AllListPages == \A k \in DOMAIN pages : pages[k].kind = "list"

\* C3: for a sequence of list-envelope pages of which only the last lacks a
\* next cursor, the call returns the concatenation, in page order and arrival
\* order, of exactly the items that satisfy the include predicate (all items
\* when none is given), and it returns only after the page without a cursor.
C3_ReturnsIncludedItems ==
    (fpc = "returned" /\ AllListPages) =>
        /\ fret.kind = "list"
        /\ fret.value = IncludedItems(filter_func, pages)
        /\ pages[Len(pages)].next = "none"
        /\ \A k \in 1..(Len(pages) - 1) : pages[k].next # "none"

\* C4: a response that is no list envelope is returned as-is only when it
\* answers the first request of the call; on any later request the call
\* raises, also when the earlier pages gave no surviving item.
C4_ObjectOnlyOnFirstRequest ==
    (fpc # "loop" /\ pages # <<>> /\ pages[Len(pages)].kind = "object") =>
        IF Len(pages) = 1
        THEN fpc = "returned" /\ fret.kind = "object"
        ELSE fpc = "raised"

----------------------------------------------------------------------------
(***************************************************************************)
(* Properties of a run.                                                    *)
(***************************************************************************)
Ended == rpc \in {"done", "crashed"}

NonStrict == config.abort_on_error = "false"

FailedPosts == {f[1] : f \in failed}

PostsOfRun == {urls[i][2] : i \in {j \in DOMAIN urls : urls[j][1] = "post"}}

FilesOf(k) == {<<"post", k>>, <<"comments", k>>, <<"likes", k>>}

Range(seq) == {seq[i] : i \in DOMAIN seq}

\* C5: in a non-strict run a transport failure on a post does not stop the
\* run: every other post is fetched and fully stored, and at its end the run
\* has reported every failed post and its outcome is not zero.
C5_NonStrictRunReportsFailures ==
    (NonStrict /\ Ended /\ failed # {}) =>
        /\ \A k \in PostsOfRun \ FailedPosts : FilesOf(k) \subseteq DOMAIN store
        /\ FailedPosts \subseteq Range(printed)
        /\ exit # 0

\* C6: at the end of a non-strict run, a post that failed with a transport
\* error at any of its fetches has nothing in the Snapshot: no post body, no
\* comment list, no reaction list.  (The claim's feed-index part is left
\* out: a run that wrote a feed index never gets to fetch a post of it, see
\* PageFeedOk.)
C6_NoPartialEntry ==
    (NonStrict /\ Ended) =>
        \A k \in FailedPosts : FilesOf(k) \cap DOMAIN store = {}

\* C7: a run is aborted by a per-post transport failure if and only if
\* abort_on_error is configured on; with the option absent the failure is
\* collected and the run goes on.
C7_AbortOnlyWhenStrictConfigured ==
    (Ended /\ failed # {}) =>
        ((rpc = "crashed" /\ raised = "HTTPError")
            <=> config.abort_on_error = "true")

\* a holds elements of b, in the order they have in b
InOrderOf(a, b) ==
    /\ \A i \in DOMAIN a : a[i] \in Range(b)
    /\ \A i, j \in DOMAIN a : i < j => PosOf(b, a[i]) < PosOf(b, a[j])

Increasing(seq) == \A i, j \in DOMAIN seq : i < j => seq[i] < seq[j]

\* t holds every comment of the stream once, each under its parent, the
\* roots and the children of every comment in stream order
TreeInStreamOrder(t, stream) ==
    /\ Increasing(t.root)
    /\ \A i \in DOMAIN stream : Increasing(t.kids[i])
    /\ \A i \in DOMAIN stream :
          IF stream[i].parent = 0
          THEN i \in Range(t.root)
          ELSE \E p \in DOMAIN stream :
                  stream[p].id = stream[i].parent /\ i \in Range(t.kids[p])
    /\ \A i \in Range(t.root) : stream[i].parent = 0
    /\ \A p \in DOMAIN stream :
          \A i \in Range(t.kids[p]) : stream[i].parent = stream[p].id

\* C8: whatever a run has stored keeps the source's order: the feed index
\* holds posts in feed order, a post's stored comment list is the stream as
\* returned, and in a post record the roots and the children of every
\* comment are in stream order.
C8_SourceOrderKept ==
    /\ <<"feed", 0>> \in DOMAIN store =>
          InOrderOf(store[<<"feed", 0>>], served[<<"page", 0>>])
    /\ \A k \in PostIds :
          <<"comments", k>> \in DOMAIN store =>
              store[<<"comments", k>>] = served[<<"post", k>>]
    /\ \A u \in Urls :
          <<"record", u>> \in DOMAIN store =>
              TreeInStreamOrder(store[<<"record", u>>], served[u])

C8_Witness ==
    /\ Ended
    /\ <<"feed", 0>> \in DOMAIN store
    /\ Len(store[<<"feed", 0>>]) = 2
    /\ \E k \in PostIds :
          /\ <<"record", <<"post", k>>>> \in DOMAIN store
          /\ \E i \in DOMAIN served[<<"post", k>>] :
                Len(store[<<"record", <<"post", k>>>>].kids[i]) = 2

----------------------------------------------------------------------------
(***************************************************************************)
(* Properties of the aggregation functions.                                *)
(***************************************************************************)
\* the users seen in the feed: post authors, reaction actors, comment authors
Observed(fd) ==
    UNION { {fd[p].from} \cup Range(fd[p].likes) \cup Range(fd[p].comments) :
            p \in DOMAIN fd }

StatsApplied == spc \in {"stats", "both"}

DuplApplied == spc \in {"dupl", "both"}

Total(e) == e[3].post + e[3].like_post + e[3].comment

OneEntryPerUserId ==
    /\ {user_stats[i][1] : i \in DOMAIN user_stats} = {u.id : u \in Observed(feed)}
    /\ \A i, j \in DOMAIN user_stats : user_stats[i][1] = user_stats[j][1] => i = j

\* the feed of one post by A, liked by B and C, with two comments by B
ExampleFeed ==
    << [from |-> User(1, "A"),
        likes |-> <<User(2, "B"), User(3, "C")>>,
        comments |-> <<User(2, "B"), User(2, "B")>>] >>

IdsInOrder == [i \in DOMAIN user_stats |-> user_stats[i][1]]

\* C9 as claimed: one entry per user id, ordered by descending total, then
\* ascending name, then ascending id, and by nothing else; the example feed
\* gives B, A, C.
C9_OrderTotalNameId ==
    StatsApplied =>
        /\ OneEntryPerUserId
        /\ \A i, j \in DOMAIN user_stats :
              i < j => TupleLess(
                  <<-Total(user_stats[i]), Rank(user_stats[i][2]), user_stats[i][1]>>,
                  <<-Total(user_stats[j]), Rank(user_stats[j][2]), user_stats[j][1]>>)
        /\ feed = ExampleFeed => IdsInOrder = <<2, 1, 3>>

\* C9 as amended: one entry per user id, ordered by descending total, then
\* descending comment count, then descending like count, then ascending
\* name, then ascending id; the example feed gives B, C, A.
C9_OrderActioncount ==
    StatsApplied =>
        /\ OneEntryPerUserId
        /\ \A i, j \in DOMAIN user_stats :
              i < j => TupleLess(
                  <<-Total(user_stats[i]), -user_stats[i][3].comment,
                    -user_stats[i][3].like_post,
                    Rank(user_stats[i][2]), user_stats[i][1]>>,
                  <<-Total(user_stats[j]), -user_stats[j][3].comment,
                    -user_stats[j][3].like_post,
                    Rank(user_stats[j][2]), user_stats[j][1]>>)
        /\ feed = ExampleFeed => IdsInOrder = <<2, 3, 1>>

C9_Witness ==
    /\ StatsApplied
    /\ feed = ExampleFeed
    /\ IdsInOrder = <<2, 3, 1>>
    /\ Total(user_stats[1]) = 3 /\ Total(user_stats[2]) = 1

IdsNamed(fd, name) == {u.id : u \in {v \in Observed(fd) : v.name = name}}

\* C10: a name is reported if and only if the observed (id, name) pairs give
\* it more than one id; it carries exactly those ids in ascending order;
\* the names come by descending number of ids, then ascending name.
C10_DuplicateNames ==
    DuplApplied =>
        /\ {dupl_names[i][1] : i \in DOMAIN dupl_names}
              = {u.name : u \in {v \in Observed(feed) :
                                    Cardinality(IdsNamed(feed, v.name)) > 1}}
        /\ \A i \in DOMAIN dupl_names :
              /\ Range(dupl_names[i][2]) = IdsNamed(feed, dupl_names[i][1])
              /\ Increasing(dupl_names[i][2])
        /\ \A i, j \in DOMAIN dupl_names :
              i < j => TupleLess(
                  <<-Len(dupl_names[i][2]), Rank(dupl_names[i][1])>>,
                  <<-Len(dupl_names[j][2]), Rank(dupl_names[j][1])>>)

\* the name with three ids comes before the name with two
C10_Witness ==
    /\ DuplApplied
    /\ dupl_names = << <<"B", <<2, 5, 6>>>>, <<"A", <<1, 4>>>> >>
    /\ \E u \in Observed(feed) : u.name = "C"

----------------------------------------------------------------------------
(***************************************************************************)
(* SpecStore: two processes run action_download with the same config, so   *)
(* on the same download_location and with the same file names.  Each line  *)
(* of action_download that touches the file system or the clock is a step. *)
(***************************************************************************)
\* the greatest second of the minute the model's clock reaches
MaxClock == 11

\* the names a run writes with _write_data, in the order it writes them
RunFiles == <<"feed", "post_1">>

\* time.strftime('%Y-%m-%dT%H:%M:%S') with the fields before the second
\* held fixed: '%S' is the second as two decimal digits, zero padded
Strftime(t) == <<t \div 10, t % 10>>

\* Python's order of two strings of the same length
RECURSIVE StrLess(_, _)
StrLess(a, b) ==
    IF a = <<>> \/ b = <<>> THEN a = <<>> /\ b # <<>>
    ELSE IF Head(a) # Head(b) THEN Head(a) < Head(b)
    ELSE StrLess(Tail(a), Tail(b))

\* sorted(os.listdir(download_location))[-1]; over no entry the index
\* raises IndexError, which NoKey stands for
LatestData(ds) ==
    IF ds = {} THEN NoKey
    ELSE CHOOSE k \in ds : \A o \in ds : o = k \/ StrLess(o, k)

StoreInit ==
    /\ clock \in 0..MaxClock
    /\ root \in BOOLEAN
    /\ dirs = {}
    /\ files = {}
    /\ runs = [r \in RunIds |-> [pc |-> "start", d |-> NoKey, n |-> 0,
                                 err |-> "none"]]

\* a second passes
Tick ==
    /\ clock < MaxClock
    /\ clock' = clock + 1
    /\ UNCHANGED <<root, dirs, files, runs>>
    /\ UNCHANGED <<treeVars, fetchVars, runVars, statsVars, zeitVars>>

\* line 244: os.path.exists(config['download_location'])
CheckRoot(r) ==
    /\ runs[r].pc = "start"
    /\ runs' = [runs EXCEPT ![r].pc = IF root THEN "stamp" ELSE "mkroot"]
    /\ UNCHANGED <<clock, root, dirs, files>>
    /\ UNCHANGED <<treeVars, fetchVars, runVars, statsVars, zeitVars>>

\* line 245: os.mkdir(config['download_location']); it raises
\* FileExistsError when the other process made the directory meanwhile
MakeRoot(r) ==
    /\ runs[r].pc = "mkroot"
    /\ IF root
         THEN /\ runs' = [runs EXCEPT ![r].pc = "raised",
                                      ![r].err = "FileExistsError"]
              /\ UNCHANGED root
         ELSE /\ root' = TRUE
              /\ runs' = [runs EXCEPT ![r].pc = "stamp"]
    /\ UNCHANGED <<clock, dirs, files>>
    /\ UNCHANGED <<treeVars, fetchVars, runVars, statsVars, zeitVars>>

\* lines 246-248: d = join(download_location, time.strftime(...))
Stamp(r) ==
    /\ runs[r].pc = "stamp"
    /\ runs' = [runs EXCEPT ![r].pc = "mkdir", ![r].d = Strftime(clock)]
    /\ UNCHANGED <<clock, root, dirs, files>>
    /\ UNCHANGED <<treeVars, fetchVars, runVars, statsVars, zeitVars>>

\* A variant that accepts a directory that is already there
MakeRunDirExistOk(r) ==
    /\ runs[r].pc = "mkdir"
    /\ dirs' = dirs \cup {runs[r].d}
    /\ runs' = [runs EXCEPT ![r].pc = "writing"]
    /\ UNCHANGED <<clock, root, files>>
    /\ UNCHANGED <<treeVars, fetchVars, runVars, statsVars, zeitVars>>

\* line 249: os.mkdir(d); it raises FileExistsError when d exists
MakeRunDir(r) ==
    /\ runs[r].pc = "mkdir"
    /\ IF runs[r].d \in dirs
         THEN /\ runs' = [runs EXCEPT ![r].pc = "raised",
                                      ![r].err = "FileExistsError"]
              /\ UNCHANGED dirs
         ELSE /\ dirs' = dirs \cup {runs[r].d}
              /\ runs' = [runs EXCEPT ![r].pc = "writing"]
    /\ UNCHANGED <<clock, root, files>>
    /\ UNCHANGED <<treeVars, fetchVars, runVars, statsVars, zeitVars>>

\* _write_data(d, name, data): open(fn, 'w') replaces a file of that name
WriteFile(r) ==
    /\ runs[r].pc = "writing"
    /\ runs[r].n < Len(RunFiles)
    /\ LET name == RunFiles[runs[r].n + 1]
           old  == {f \in files : f.key = runs[r].d /\ f.name = name}
       IN  files' = (files \ old) \cup
                        {[key |-> runs[r].d, name |-> name, by |-> r]}
    /\ runs' = [runs EXCEPT ![r].n = @ + 1]
    /\ UNCHANGED <<clock, root, dirs>>
    /\ UNCHANGED <<treeVars, fetchVars, runVars, statsVars, zeitVars>>

\* a download raises (lines 527-533 with abort_on_error, or any uncaught
\* exception of an adapter): action_download is left, d stays as it is
RunAborts(r) ==
    /\ runs[r].pc = "writing"
    /\ runs[r].n < Len(RunFiles)
    /\ runs' = [runs EXCEPT ![r].pc = "raised", ![r].err = "HTTPError"]
    /\ UNCHANGED <<clock, root, dirs, files>>
    /\ UNCHANGED <<treeVars, fetchVars, runVars, statsVars, zeitVars>>

\* the loops of action_download are through: the run has finished
RunEnds(r) ==
    /\ runs[r].pc = "writing"
    /\ runs[r].n = Len(RunFiles)
    /\ runs' = [runs EXCEPT ![r].pc = "done"]
    /\ UNCHANGED <<clock, root, dirs, files>>
    /\ UNCHANGED <<treeVars, fetchVars, runVars, statsVars, zeitVars>>

StoreNext ==
    \/ Tick
    \/ \E r \in RunIds : CheckRoot(r)
    \/ \E r \in RunIds : MakeRoot(r)
    \/ \E r \in RunIds : Stamp(r)
    \/ \E r \in RunIds : MakeRunDir(r)
    \/ \E r \in RunIds : WriteFile(r)
    \/ \E r \in RunIds : RunAborts(r)
    \/ \E r \in RunIds : RunEnds(r)

InitStore ==
    StoreInit /\ TreeIdle /\ FetchIdle /\ RunIdle /\ StatsIdle /\ ZeitIdle

SpecStore == InitStore /\ [][StoreNext]_vars

----------------------------------------------------------------------------
(***************************************************************************)
(* SpecZeit: action_download calls download_zeit for each zeit.de URL in   *)
(* turn.  A comment is identified by the place of its article in the       *)
(* document order of the URL's pages; an article is "top" when its class   *)
(* holds js-comment-toplevel and "reply" otherwise.                        *)
(***************************************************************************)
\* the zeit.de URLs of url_groups, in order
ZeitUrls == <<"zeitA", "zeitB">>

\* the greatest page count a pager announces
MaxPagecount == 2

\* the article lists section.findall('.//article') gives for one page
PagePool ==
    { <<"top">>, <<"reply">>, <<"top", "reply">>, <<"reply", "top">>,
      <<"reply", "reply">> }

\* the locals of download_zeit the article loop works on
ZeitLocals(cs, last, d) ==
    [comments |-> cs, last_toplevel |-> last, doc |-> d, err |-> "none"]

\* lines 307-325, the body of the article loop for one article
Article(st, kind) ==
    LET id      == Len(st.doc) + 1
        comment == [id |-> id, comments |-> <<>>]
        seen    == Append(st.doc, kind)
    IN  IF kind = "top"
        THEN [st EXCEPT !.doc = seen,
                        !.comments = Append(st.comments, comment),
                        !.last_toplevel = id]
        ELSE IF st.last_toplevel = 0
        THEN [st EXCEPT !.doc = seen, !.err = "AssertionError"]
        ELSE [st EXCEPT
                !.doc = seen,
                !.comments =
                    [c \in DOMAIN st.comments |->
                        IF st.comments[c].id = st.last_toplevel
                        THEN [id |-> st.comments[c].id,
                              comments |->
                                  Append(st.comments[c].comments, comment)]
                        ELSE st.comments[c]]]

\* line 306: the article loop over one page; an exception leaves it
RECURSIVE Articles(_, _)
Articles(st, arts) ==
    IF arts = <<>> \/ st.err # "none" THEN st
    ELSE Articles(Article(st, Head(arts)), Tail(arts))

ZeitInit ==
    /\ zi = 1 /\ pagecount = 0 /\ zpage = 0 /\ zfetched = <<>> /\ doc = <<>>
    /\ zcomments = <<>> /\ last_toplevel = 0 /\ zerr = "none"
    /\ zpc = "start" /\ zwritten = <<>>

\* lines 273-290: the article is downloaded, the pager gives pagecount,
\* comments = [], last_toplevel = None
ZeitStart ==
    /\ zpc = "start"
    /\ pagecount' \in 1..MaxPagecount
    /\ zpage' = 1
    /\ zfetched' = <<>>
    /\ doc' = <<>>
    /\ zcomments' = <<>>
    /\ last_toplevel' = 0
    /\ zpc' = "loop"
    /\ UNCHANGED <<zi, zerr, zwritten>>
    /\ UNCHANGED <<treeVars, fetchVars, runVars, statsVars, storeVars>>

\* lines 273-280: the download raises HTTPError, or the page has no pager
\* and m.group raises AttributeError
ZeitStartFails ==
    /\ zpc = "start"
    /\ zerr' \in {"HTTPError", "AttributeError"}
    /\ zpc' = "raised"
    /\ UNCHANGED <<zi, pagecount, zpage, zfetched, doc, zcomments,
                   last_toplevel, zwritten>>
    /\ UNCHANGED <<treeVars, fetchVars, runVars, statsVars, storeVars>>

\* A variant in which every page starts without a top-level comment
ZeitPageForgets ==
    /\ zpc = "loop"
    /\ zpage <= pagecount
    /\ \E arts \in PagePool :
          LET st == Articles(ZeitLocals(zcomments, 0, doc), arts)
          IN  /\ zcomments' = st.comments
              /\ last_toplevel' = st.last_toplevel
              /\ doc' = st.doc
              /\ zerr' = st.err
              /\ zpc' = IF st.err = "none" THEN "loop" ELSE "raised"
              /\ zpage' = IF st.err = "none" THEN zpage + 1 ELSE zpage
    /\ zfetched' = Append(zfetched, zpage)
    /\ UNCHANGED <<zi, pagecount, zwritten>>
    /\ UNCHANGED <<treeVars, fetchVars, runVars, statsVars, storeVars>>

\* lines 291-325: one pass of the page loop, the page downloaded and parsed
ZeitPage ==
    /\ zpc = "loop"
    /\ zpage <= pagecount
    /\ \E arts \in PagePool :
          LET st == Articles(ZeitLocals(zcomments, last_toplevel, doc), arts)
          IN  /\ zcomments' = st.comments
              /\ last_toplevel' = st.last_toplevel
              /\ doc' = st.doc
              /\ zerr' = st.err
              /\ zpc' = IF st.err = "none" THEN "loop" ELSE "raised"
              /\ zpage' = IF st.err = "none" THEN zpage + 1 ELSE zpage
    /\ zfetched' = Append(zfetched, zpage)
    /\ UNCHANGED <<zi, pagecount, zwritten>>
    /\ UNCHANGED <<treeVars, fetchVars, runVars, statsVars, storeVars>>

\* line 294: _download_webpage(paging_url + str(page)) raises
ZeitPageFails ==
    /\ zpc = "loop"
    /\ zpage <= pagecount
    /\ zfetched' = Append(zfetched, zpage)
    /\ zerr' = "HTTPError"
    /\ zpc' = "raised"
    /\ UNCHANGED <<zi, pagecount, zpage, doc, zcomments, last_toplevel,
                   zwritten>>
    /\ UNCHANGED <<treeVars, fetchVars, runVars, statsVars, storeVars>>

\* lines 327-332: the page loop is through, the post is written;
\* action_download goes on to the next URL
ZeitWritePost ==
    /\ zpc = "loop"
    /\ zpage > pagecount
    /\ zwritten' = Append(zwritten, [url |-> ZeitUrls[zi],
                                      comments |-> zcomments])
    /\ IF zi < Len(ZeitUrls)
         THEN zi' = zi + 1 /\ zpc' = "start"
         ELSE zi' = zi /\ zpc' = "done"
    /\ UNCHANGED <<pagecount, zpage, zfetched, doc, zcomments, last_toplevel,
                   zerr>>
    /\ UNCHANGED <<treeVars, fetchVars, runVars, statsVars, storeVars>>

ZeitNext ==
    \/ ZeitStart
    \/ ZeitStartFails
    \/ ZeitPage
    \/ ZeitPageFails
    \/ ZeitWritePost

InitZeit ==
    ZeitInit /\ TreeIdle /\ FetchIdle /\ RunIdle /\ StatsIdle /\ StoreIdle

SpecZeit == InitZeit /\ [][ZeitNext]_vars

----------------------------------------------------------------------------
(***************************************************************************)
(* Further properties of the tree builders and of graph_api.               *)
(***************************************************************************)
\* the field in which a builder keeps the children of a comment
ChildField(t) == IF t.by = "_comment_tree" THEN t.children ELSE t.kids

\* C13: every builder resolves a parent reference against all comments of
\* the list, so a comment whose parent comes later in the list is attached
\* to that parent just as when the parent comes earlier (stated for lists
\* whose parent references all resolve and form no cycle).
C13_ParentAnywhereInList ==
    (tpc = "built" /\ Resolvable(comments) /\ Acyclic(comments)) =>
        /\ tree.err = "none"
        /\ \A i \in DOMAIN comments :
              ParentOf(comments, i) # 0 =>
                  i \in Range(ChildField(tree)[ParentOf(comments, i)])

\* what ends a call: a list envelope without next, an object, a failure
EndsCall(page) ==
    \/ page.kind \in {"HTTPError", "object"}
    \/ page.kind = "list" /\ page.next = "none"

RequestsFollowChain ==
    /\ Len(requests) = Len(pages)
    /\ requests # <<>> => requests[1] = InitialUrl
    /\ \A k \in 1..(Len(pages) - 1) :
          /\ ~EndsCall(pages[k])
          /\ requests[k + 1] = pages[k].next
    /\ fpc = "loop" => \A k \in DOMAIN pages : ~EndsCall(pages[k])
    /\ fpc # "loop" => EndsCall(pages[Len(pages)])
    /\ (pages # <<>> /\ pages[Len(pages)].kind = "HTTPError") =>
          fpc = "raised" /\ fret.kind = "HTTPError"

\* C15: the requests of one call are the initial URL and then each next URL
\* the server supplied, in chain order, one request per link; the call ends
\* at the first page without a next cursor or at the first transport
\* failure, which is raised to the caller, and no request follows the end.
C15_RequestsFollowChain ==
    /\ []RequestsFollowChain
    /\ [][fpc # "loop" => (requests' = requests /\ fpc' = fpc /\ fret' = fret)]_vars

C15_Witness ==
    /\ fpc = "raised" /\ fret.kind = "HTTPError"
    /\ Len(requests) = MaxPages
    /\ requests[2] # requests[3]

----------------------------------------------------------------------------
(***************************************************************************)
(* Properties of the run directories.                                      *)
(***************************************************************************)
\* C11: at every moment the run directory _latest_data returns (the
\* greatest name) is the directory of a run that has finished: not of a
\* run still writing, and not of a run that aborted.
C11_LatestIsFinished ==
    dirs # {} =>
        \E r \in RunIds :
            runs[r].d = LatestData(dirs) /\ runs[r].pc = "done"

\* the processes that have a file in the run directory k
WritersOf(k) == {f.by : f \in {g \in files : g.key = k}}

OneWriterPerKey ==
    /\ \A k \in dirs : Cardinality(WritersOf(k)) <= 1
    /\ \A r \in RunIds :
          runs[r].err = "FileExistsError" =>
              /\ runs[r].n = 0
              /\ \A f \in files : f.by # r
    /\ \A r1, r2 \in RunIds :
          (r1 # r2 /\ runs[r1].pc \in {"writing", "done"}
                   /\ runs[r2].pc \in {"writing", "done"}) =>
              runs[r1].d # runs[r2].d

\* C12: under every interleaving of two runs on one download_location, two
\* runs started in the same second included, no run directory is written
\* by both: the runs' directories differ, or the later run raises at
\* os.mkdir before it has written a file, and no file a run wrote is
\* replaced.
C12_NoSharedRunKey ==
    /\ []OneWriterPerKey
    /\ [][\A f \in files : f \in files']_vars

C12_Witness ==
    \E r1, r2 \in RunIds :
        /\ runs[r1].d = runs[r2].d
        /\ runs[r1].pc = "done"
        /\ \E f \in files : f.by = r1 /\ f.key = runs[r1].d
        /\ runs[r2].pc = "raised" /\ runs[r2].err = "FileExistsError"

----------------------------------------------------------------------------
(***************************************************************************)
(* Properties of download_zeit.                                            *)
(***************************************************************************)
Tops(d) == {i \in DOMAIN d : d[i] = "top"}

\* the last top-level article before place j, 0 if there is none
TopBefore(d, j) ==
    LET s == {i \in Tops(d) : i < j}
    IN  IF s = {} THEN 0 ELSE CHOOSE m \in s : \A i \in s : i <= m

RepliesTo(d, p) == {j \in DOMAIN d : d[j] = "reply" /\ TopBefore(d, j) = p}

IdsOf(cs) == [k \in DOMAIN cs |-> cs[k].id]

PagesInOrder ==
    /\ \A i \in DOMAIN zfetched : zfetched[i] = i
    /\ Len(zfetched) <= pagecount
    /\ zpc = "loop" => Len(zfetched) = zpage - 1
    /\ (zpc \in {"start", "done"} /\ zwritten # <<>>) =>
          /\ Len(zfetched) = pagecount
          /\ zwritten[Len(zwritten)].comments = zcomments

RepliesUnderLastToplevel ==
    /\ Increasing(IdsOf(zcomments))
    /\ Range(IdsOf(zcomments)) = Tops(doc)
    /\ \A c \in DOMAIN zcomments :
          /\ Increasing(IdsOf(zcomments[c].comments))
          /\ Range(IdsOf(zcomments[c].comments)) =
                 RepliesTo(doc, zcomments[c].id)
    /\ last_toplevel = TopBefore(doc, Len(doc) + 1)

ReplyWithoutToplevelRaises ==
    /\ RepliesTo(doc, 0) # {} =>
          /\ RepliesTo(doc, 0) = {Len(doc)}
          /\ zpc = "raised" /\ zerr = "AssertionError"
    /\ zerr = "AssertionError" => RepliesTo(doc, 0) # {}

\* C14: download_zeit requests the pages 1..pagecount once each in
\* ascending order; every reply becomes the last child of the top-level
\* comment seen last before it in the document order of its URL, across
\* page boundaries and starting anew with each URL; a reply before any
\* top-level comment of its URL raises and is attached to nothing.
C14_PagesAndReplies ==
    zpc # "idle" =>
        /\ PagesInOrder
        /\ RepliesUnderLastToplevel
        /\ ReplyWithoutToplevelRaises

C14_Witness ==
    /\ zi = 2 /\ zpc = "raised" /\ zerr = "AssertionError"
    /\ Len(zwritten) = 1
    /\ \E c \in DOMAIN zwritten[1].comments :
          Len(zwritten[1].comments[c].comments) >= 2
    /\ zwritten[1].comments[Len(zwritten[1].comments)].comments = <<>>

====
